---- MODULE Spec2Model ----
(***************************************************************************)
(* Model of the request orchestration layer of DesignChat:                 *)
(* ModelApiManager (src/services/api/modelApiManager.ts), the provider     *)
(* registry it reads (config/models.json, modelsLoader.ts,                 *)
(* modelManager.ts) and the JavaScript event loop it runs on.              *)
(*                                                                         *)
(* Every async function is cut at its awaits.  A call is suspended at a    *)
(* program counter; a continuation whose promise is already settled is a   *)
(* pending microtask (MicroPcs) and runs before any timer, network or      *)
(* clock event (a macrotask).  The order among pending microtasks of       *)
(* different calls is left open.                                           *)
(***************************************************************************)
EXTENDS Integers, Sequences, FiniteSets, TLC

\* ------------------------------------------------------------------------
\* Bounds
\* ------------------------------------------------------------------------
NumCalls == 2
MaxCount == 2
MaxTicks == 2
MaxItems == 3

\* ------------------------------------------------------------------------
\* Program constants
\* ------------------------------------------------------------------------
POLLING_INTERVAL == 100
DEFAULT_COUNT == 1
ConfiguredMaxConcurrent == 2
ConfiguredCooldownMs == 1000

Calls == 1..NumCalls

\* ------------------------------------------------------------------------
\* Provider registry (config/models.json)
\* ------------------------------------------------------------------------
Groups == {"doubao", "openai", "cogview", "tongyi", "jimeng"}

models ==
  { [id |-> "doubao-seedream-3-0-t2i-250415", group |-> "doubao"],
    [id |-> "high_aes_general_v21_L",         group |-> "doubao"],
    [id |-> "high_aes_general_v20_L",         group |-> "doubao"],
    [id |-> "high_aes_general_v20",           group |-> "doubao"],
    [id |-> "high_aes_general_v14",           group |-> "doubao"],
    [id |-> "t2i_xl_sft",                     group |-> "doubao"],
    [id |-> "gpt_4o",                         group |-> "openai"],
    [id |-> "cogView-4-250304",               group |-> "cogview"],
    [id |-> "wanx2.0-t2i-turbo",              group |-> "tongyi"],
    [id |-> "wanx2.1-t2i-turbo",              group |-> "tongyi"],
    [id |-> "wanx2.1-t2i-plus",               group |-> "tongyi"],
    [id |-> "jimeng_high_aes_general_v21_L",  group |-> "jimeng"] }

\* The admission configuration shipped in models.json: the same pair for
\* every group.
\* A "configs" whose groups admit nothing.
ShippedConfigs_Closed ==
  [g \in Groups |-> [maxConcurrent |-> 0,
                     cooldownMs    |-> ConfiguredCooldownMs]]

ShippedConfigs ==
  [g \in Groups |-> [maxConcurrent |-> ConfiguredMaxConcurrent,
                     cooldownMs    |-> ConfiguredCooldownMs]]

\* Admission configurations the dispatcher is run against: the shipped one,
\* and the variants {maxConcurrent: 1} and {cooldownMs: 0} of the spec's
\* scenarios.
ConfigChoices ==
  { [g \in Groups |-> [maxConcurrent |-> m, cooldownMs |-> cd]] :
      m \in 1..ConfiguredMaxConcurrent, cd \in {0, ConfiguredCooldownMs} }

\* A registry whose "configs" has no entry for group g.
WithoutGroup(cf, g) == [h \in DOMAIN cf \ {g} |-> cf[h]]

\* Date.now() at page load is far beyond any cooldown.
StartTime == ConfiguredCooldownMs

\* Amounts by which the wall clock is observed to advance between events.
TickSteps == {POLLING_INTERVAL, ConfiguredCooldownMs}

VARIABLES
  configs,          \* models.json "configs": group -> {maxConcurrent, cooldownMs}
  env,              \* what the collaborators can do in this run
  req,              \* the call each caller issues
  activeRequests,   \* ModelApiManager.activeRequests
  lastRequestTime,  \* ModelApiManager.lastRequestTime
  now,              \* Date.now()
  ticks,            \* number of clock advances so far
  pc,               \* where each call is suspended
  idx,              \* loop variable i of the batch loop
  cur,              \* settled value of the promise the call awaits
  results,          \* local results[] of the batch
  errors,           \* errors.length of the batch
  log,              \* stream callbacks invoked so far, in order
  outcome,          \* settlement of the promise returned to the caller
  wakeAt,           \* expiry of the pending setTimeout of a polling call
  invoked,          \* per call: collaborator invocations made so far
  dispatchedAt,     \* per running call: Date.now() at its latest commit
  fed,              \* per call, per item: what the collaborators answered
  waitingSince,     \* per call: Date.now() when its item began to wait
  ui                \* the chat message being generated by handleSendMessage

vars == << configs, env, req, activeRequests, lastRequestTime, now, ticks,
           pc, idx, cur, results, errors, log, outcome, wakeAt, invoked,
           dispatchedAt, fed, waitingSince, ui >>

\* ------------------------------------------------------------------------
\* Registry lookups
\* ------------------------------------------------------------------------
NoModel == [id |-> "undefined", group |-> "undefined"]

getModelById(id) ==
  IF \E m \in models : m.id = id
    THEN CHOOSE m \in models : m.id = id
    ELSE NoModel

\* config.configs[group] is undefined for a group that has no entry.
HasGroupConfig(g) == g \in DOMAIN configs

getGroupConfig(g) == configs[g]

\* How the lookup config.configs[group] ends: it never throws; for a group
\* without an entry it returns undefined.
GroupConfigLookup(g) == [thrown |-> FALSE, defined |-> HasGroupConfig(g)]

getModelConfigByGroup(g) == getGroupConfig(g)

\* A getModelStatus that reports every id as available.
getModelStatus_Unchecked(id) ==
  [available |-> TRUE, model |-> getModelById(id), error |-> "none"]

\* getModelStatus(modelId): available, model and error
getModelStatus(id) ==
  LET model == getModelById(id) IN
  IF model = NoModel
    THEN [available |-> FALSE, model |-> NoModel, error |-> "MODEL_NOT_FOUND"]
  ELSE IF ~HasGroupConfig(model.group)
    THEN [available |-> FALSE, model |-> model, error |-> "GROUP_CONFIG_MISSING"]
    ELSE [available |-> TRUE, model |-> model, error |-> "none"]

\* A routing switch with an adapter behind every case.
ImplementedGroups_All == Groups

\* Groups the routing switch sends to an adapter.
ImplementedGroups == {"openai", "doubao"}

GroupOf(c) == getModelById(req[c].modelId).group

\* ------------------------------------------------------------------------
\* Standard results
\* ------------------------------------------------------------------------
NoResult ==
  [success |-> FALSE, imageUrl |-> "none", error |-> "none",
   message |-> << >>, text |-> FALSE, item |-> -1]

\* What a settled promise carries: a value, or a thrown error message.
NoCur == [thrown |-> FALSE, error |-> "none", r |-> NoResult]

Returned(r) == [thrown |-> FALSE, error |-> "none", r |-> r]
Thrown(msg) == [thrown |-> TRUE, error |-> msg, r |-> NoResult]

\* The adapter's settlement for each outcome kind.
AdapterOutcomes == {"img", "text", "fail", "throw", "throwNonError"}

AdapterSettles(out) ==
  CASE out = "img"  -> Returned([NoResult EXCEPT !.success = TRUE,
                                                  !.imageUrl = "orig"])
    [] out = "text" -> Returned([NoResult EXCEPT !.success = TRUE,
                                                  !.text = TRUE])
    [] out = "fail" -> Returned([NoResult EXCEPT !.error = "PROVIDER_REJECTED"])
    [] out = "throw" -> Thrown("PROVIDER_ERROR")
    [] out = "throwNonError" -> Thrown("UNKNOWN_ERROR")

\* How storageService.uploadImageFromUrl settles: success with a url,
\* success without one, success = false, or an exception.
UploadOutcomes == {"ok", "okNoUrl", "fail", "throw"}

\* A re-hosting step whose failure fails the item.
uploadToStorageIfNeeded_Strict(r, uout) ==
  CASE uout = "ok"    -> [r EXCEPT !.imageUrl = "stored",
                                   !.message = Append(r.message, "saved")]
    [] uout \in {"okNoUrl", "fail"} ->
         [r EXCEPT !.success = FALSE, !.imageUrl = "none",
                   !.message = Append(r.message, "uploadFailed")]
    [] uout = "throw" -> [r EXCEPT !.success = FALSE, !.imageUrl = "none",
                                   !.message = Append(r.message, "uploadException")]

\* A batch loop that goes on without re-hosting the item.
NeedsUpload_Never(r) == FALSE

\* A re-hosting step that reports its own failure in the item's error.
uploadToStorageIfNeeded_Flagged(r, uout) ==
  CASE uout = "ok"    -> [r EXCEPT !.imageUrl = "stored",
                                   !.message = Append(r.message, "saved")]
    [] uout \in {"okNoUrl", "fail"} ->
         [r EXCEPT !.error = "UPLOAD_FAILED",
                   !.message = Append(r.message, "uploadFailed")]
    [] uout = "throw" ->
         [r EXCEPT !.error = "UPLOAD_FAILED",
                   !.message = Append(r.message, "uploadException")]

\* uploadToStorageIfNeeded, after storageService.uploadImageFromUrl settled.
uploadToStorageIfNeeded(r, uout) ==
  CASE uout = "ok"    -> [r EXCEPT !.imageUrl = "stored",
                                   !.message = Append(r.message, "saved")]
    [] uout \in {"okNoUrl", "fail"} ->
         [r EXCEPT !.message = Append(r.message, "uploadFailed")]
    [] uout = "throw" -> [r EXCEPT !.message = Append(r.message, "uploadException")]

\* A helper that re-hosts every successful result, text-only ones included.
NeedsUpload_AnySuccess(r) == r.success

\* if (result.success && result.imageUrl)
NeedsUpload(r) == r.success /\ r.imageUrl # "none"

\* A catch block that records the failure without its message.
ErrorResult_Bare(msg, i) == [NoResult EXCEPT !.item = i]

\* The failed result the batch loop builds from a caught error.
ErrorResult(msg, i) == [NoResult EXCEPT !.error = msg, !.item = i]

\* ------------------------------------------------------------------------
\* Batch parameters
\* ------------------------------------------------------------------------
\* a || b for counts, 0 standing for an omitted (or zero) count
Or(a, b) == IF a # 0 THEN a ELSE b

Count(c) ==
  IF req[c].mode = "stream"
    THEN Or(req[c].streamCount, Or(req[c].count, DEFAULT_COUNT))
    ELSE Or(req[c].count, DEFAULT_COUNT)

\* ------------------------------------------------------------------------
\* Event loop
\* ------------------------------------------------------------------------
\* Continuations whose awaited promise is settled: pending microtasks.
MicroPcs == {"authRet", "admitted", "execRet", "uploadRet"}

MicrotaskPending == \E c \in Calls : pc[c] \in MicroPcs

\* ------------------------------------------------------------------------
\* Requests and environments
\* ------------------------------------------------------------------------
NoCall == [mode |-> "none", modelId |-> "undefined", count |-> 0,
           streamCount |-> 0, hasCredentials |-> FALSE]

SampleModelIds ==
  {"gpt_4o", "high_aes_general_v21_L", "cogView-4-250304",
   "wanx2.0-t2i-turbo", "jimeng_high_aes_general_v21_L", "no-such-model"}

\* generateImage(modelId, {prompt, count}, modelConfig) and
\* generateImageStream(modelId, {prompt, count}, {count, ...}, modelConfig)
Requests ==
  [mode : {"aggregate"}, modelId : SampleModelIds,
   count : 0..MaxCount, streamCount : {0},
   hasCredentials : BOOLEAN]
  \cup
  [mode : {"stream"}, modelId : SampleModelIds,
   count : 0..MaxCount, streamCount : 0..MaxCount,
   hasCredentials : BOOLEAN]

ThrowChoices == [progress : BOOLEAN, progress2 : BOOLEAN,
                 complete : BOOLEAN, error : BOOLEAN]

NoThrow == [progress |-> FALSE, progress2 |-> FALSE,
            complete |-> FALSE, error |-> FALSE]

TypeOK ==
  /\ ui.mounted \in BOOLEAN
  /\ ui.isGenerating \in BOOLEAN
  /\ ui.awaiting \in Nat
  /\ \A f \in {"success", "failed", "total", "generating"} :
       ui.status[f] \in Int
  /\ DOMAIN configs \subseteq Groups
  /\ activeRequests \in [DOMAIN configs -> Int]
  /\ lastRequestTime \in [DOMAIN configs -> Nat]
  /\ now \in Nat
  /\ ticks \in 0..MaxTicks
  /\ \A c \in Calls : idx[c] \in Nat /\ errors[c] \in Nat
  /\ dispatchedAt \in [Calls -> Nat]
  /\ waitingSince \in [Calls -> Nat]
  /\ \A c \in Calls : \A k \in 1..Len(fed[c]) :
       /\ fed[c][k].auth \in {"granted", "denied"}
       /\ fed[c][k].adapter \in AdapterOutcomes \cup {"none"}
       /\ fed[c][k].upload \in UploadOutcomes \cup {"none"}

\* ------------------------------------------------------------------------
\* Responses and stream callbacks
\* ------------------------------------------------------------------------
RECURSIVE CountSuccess(_)
CountSuccess(rs) ==
  IF rs = << >> THEN 0
  ELSE (IF Head(rs).success THEN 1 ELSE 0) + CountSuccess(Tail(rs))

NoResponse ==
  [results |-> << >>, totalRequested |-> 0, successful |-> 0, failed |-> 0]

\* The GenerationResponse built after the batch loop.
GenerationResponse(rs, count, nerrors) ==
  [results |-> rs, totalRequested |-> count,
   successful |-> CountSuccess(rs), failed |-> nerrors]

\* An invocation of a stream callback; threw says that the consumer's
\* callback raised an exception instead of returning.
ProgressEvent(r, i, total) ==
  [kind |-> "progress", index |-> i, total |-> total, r |-> r,
   error |-> "none", resp |-> NoResponse, threw |-> FALSE]

CompleteEvent(resp) ==
  [kind |-> "complete", index |-> -1, total |-> -1, r |-> NoResult,
   error |-> "none", resp |-> resp, threw |-> FALSE]

ErrorEvent(msg) ==
  [kind |-> "error", index |-> -1, total |-> -1, r |-> NoResult,
   error |-> msg, resp |-> NoResponse, threw |-> FALSE]

Threw(e, t) == [e EXCEPT !.threw = t]

Pending == [state |-> "pending", error |-> "none", resp |-> NoResponse]
Resolved(resp) == [state |-> "resolved", error |-> "none", resp |-> resp]
Rejected(msg) == [state |-> "rejected", error |-> msg, resp |-> NoResponse]

\* checkAuth() resolves to a boolean.
AuthValue(ok) == Returned([NoResult EXCEPT !.success = ok])

\* How the promise of checkAuth() stands when executeRequest awaits it:
\* still pending ("slow": it settles after I/O), or already settled with
\* true ("granted") or false ("denied").
AuthStarts == {"slow", "granted", "denied"}

\* `await this.authMiddleware.checkAuth()`: where the call is suspended and
\* what its continuation will receive.
AwaitCheckAuth(a) ==
  IF a = "slow" THEN [pc |-> "auth", cur |-> NoCur]
  ELSE [pc |-> "authRet", cur |-> AuthValue(a = "granted")]

\* ------------------------------------------------------------------------
\* Admission
\* ------------------------------------------------------------------------
\* An admission check that looks at the counter only.
ServiceAvailable_NoCooldown(g) ==
  activeRequests[g] < getModelConfigByGroup(g).maxConcurrent

\* An admission check over one ledger shared by all groups.
ServiceAvailable_Global(g) ==
  LET modelConfig == getModelConfigByGroup(g) IN
  \A h \in DOMAIN configs :
    /\ activeRequests[h] < modelConfig.maxConcurrent
    /\ now - lastRequestTime[h] >= modelConfig.cooldownMs

\* The condition under which waitForServiceAvailability leaves its loop.
ServiceAvailable(g) ==
  LET activeCount == activeRequests[g]
      lastRequest == lastRequestTime[g]
      timeSinceLastRequest == now - lastRequest
      modelConfig == getModelConfigByGroup(g)
  IN  /\ activeCount < modelConfig.maxConcurrent
      /\ timeSinceLastRequest >= modelConfig.cooldownMs

\* A release that is skipped when the request function throws.
AfterRequest_NoFinally(active, settled) ==
  IF settled.thrown THEN active ELSE active - 1

\* A release that waits for the re-hosting of a returned result.
AfterRequest_Held(active, settled) ==
  IF settled.thrown THEN active - 1 ELSE active

\* The finally block of executeRequest: the counter after requestFn has
\* settled, whichever way.
AfterRequest(active, settled) == active - 1

\* An admission queue: a waiter passes only when nobody of its group has
\* been waiting for longer.
waitForServiceAvailability_Queued(c) ==
  LET first == \A d \in Calls \ {c} :
                 (pc[d] = "poll" /\ GroupOf(d) = GroupOf(c)) =>
                   (pc[c] = "poll" /\ waitingSince[c] <= waitingSince[d])
  IN
  IF ServiceAvailable(GroupOf(c)) /\ first
    THEN /\ pc' = [pc EXCEPT ![c] = "admitted"]
         /\ wakeAt' = wakeAt
    ELSE /\ pc' = [pc EXCEPT ![c] = "poll"]
         /\ wakeAt' = [wakeAt EXCEPT ![c] = now + POLLING_INTERVAL]

\* One pass of the loop of waitForServiceAvailability: return, or arm the
\* polling timer.
waitForServiceAvailability(c) ==
  IF ServiceAvailable(GroupOf(c))
    THEN /\ pc' = [pc EXCEPT ![c] = "admitted"]
         /\ wakeAt' = wakeAt
    ELSE /\ pc' = [pc EXCEPT ![c] = "poll"]
         /\ wakeAt' = [wakeAt EXCEPT ![c] = now + POLLING_INTERVAL]

\* ------------------------------------------------------------------------
\* The chat message (hooks/chat/index.ts, handleSendMessage)
\* ------------------------------------------------------------------------
\* A placeholder of a result array; `origin` and the position stand for the
\* id `img_${Date.now()}_${index}_${random}`, which is drawn anew for every
\* array that is built.
Placeholder(origin, c, index) ==
  [id |-> << origin, c, index >>, url |-> "none", text |-> FALSE,
   error |-> "none", errorMessage |-> "none", isGenerating |-> TRUE]

\* No message is being generated: the dispatcher's caller is not the chat.
NoUi ==
  [mounted |-> FALSE,
   status |-> [success |-> 0, failed |-> 0, total |-> 0, generating |-> 0],
   images |-> << >>, results |-> << >>, resolved |-> << >>,
   awaiting |-> 0, isGenerating |-> FALSE]

RECURSIVE SumCounts(_, _)
SumCounts(counts, n) ==
  IF n = 0 THEN 0 ELSE counts[n] + SumCounts(counts, n - 1)

\* handleSendMessage up to its first `await promise`: initialResults, the
\* message, onSetIsGenerating(true), and per selected model the array
\* `results` and the promise of updatePromises.
InitialUi(counts) ==
  LET totalCount == SumCounts(counts, Len(counts)) IN
  [mounted |-> TRUE,
   status |-> [success |-> 0, failed |-> 0, total |-> totalCount,
               generating |-> totalCount],
   images |-> [c \in 1..Len(counts) |->
                 [k \in 1..counts[c] |-> Placeholder("initial", c, k - 1)]],
   results |-> [c \in 1..Len(counts) |->
                  [k \in 1..counts[c] |-> Placeholder("results", c, k - 1)]],
   resolved |-> [c \in 1..Len(counts) |-> FALSE],
   awaiting |-> 1, isGenerating |-> TRUE]

\* streamRequest.onProgress of model c.
UiOnProgress(u, c, result, index) ==
  LET slot == [id |-> u.results[c][index + 1].id,
               url |-> result.imageUrl,
               text |-> result.text,
               error |-> IF result.success THEN "none"
                         ELSE IF result.error # "none" THEN result.error
                         ELSE "GENERATION_FAILED",
               errorMessage |-> result.error,
               isGenerating |-> FALSE]
      updated == [u.results[c] EXCEPT ![index + 1] = slot]
  IN [u EXCEPT
        !.results[c] = updated,
        !.status.success = IF result.success THEN @ + 1 ELSE @,
        !.status.failed = IF result.success THEN @ ELSE @ + 1,
        !.status.generating = @ - 1,
        !.images[c] = updated]

\* streamRequest.onComplete of model c: resolve({[name]: results}).
UiOnComplete(u, c) == [u EXCEPT !.resolved[c] = TRUE]

\* An onError that counts only the slots that are still generating.
UiOnError_Remaining(u, c, count, msg) ==
  LET left == Cardinality({k \in 1..Len(u.results[c]) :
                             u.results[c][k].isGenerating})
  IN [u EXCEPT !.status.generating = @ - left,
               !.resolved[c] = TRUE]

\* streamRequest.onError of model c.
UiOnError(u, c, count, msg) ==
  LET errorResults ==
        [k \in 1..Len(u.results[c]) |->
           [u.results[c][k] EXCEPT !.url = "none", !.text = FALSE,
                                   !.error = "GENERATION_FAILED",
                                   !.errorMessage = msg,
                                   !.isGenerating = FALSE]]
  IN [u EXCEPT
        !.status.generating = @ - count,
        !.status.failed = @ + count,
        !.images[c] = errorResults,
        !.resolved[c] = TRUE]

\* The callbacks of model c run for the events evs, in order.
RECURSIVE UiApply(_, _, _, _)
UiApply(u, c, count, evs) ==
  IF evs = << >> THEN u
  ELSE LET e == Head(evs)
           v == CASE e.kind = "progress" -> UiOnProgress(u, c, e.r, e.index)
                  [] e.kind = "complete" -> UiOnComplete(u, c)
                  [] e.kind = "error" -> UiOnError(u, c, count, e.error)
       IN UiApply(v, c, count, Tail(evs))

\* The stream callbacks that call c invoked in this step are those of the
\* message, when the chat issued the call.
UiCallbacks(c) ==
  ui' = IF ui.mounted
          THEN UiApply(ui, c, req[c].count,
                       SubSeq(log'[c], Len(log[c]) + 1, Len(log'[c])))
          ELSE ui

\* currentModels.map(async ...) runs to its end before the event loop takes
\* any other job: nothing else happens while a selected model is unstarted.
CallerYielded ==
  ui.mounted => \A c \in Calls : pc[c] # "idle"

\* currentModels.map(...) starts the models in the order of the selection.
CallerReaches(c) ==
  ui.mounted => \A d \in 1..(c - 1) : pc[d] # "idle"

\* A loop that leaves at the first promise that is resolved.
AfterAwait_First(u) ==
  [u EXCEPT !.awaiting = Len(u.resolved) + 1, !.isGenerating = FALSE]

\* `await promise` returned: the loop goes to the next promise of
\* updatePromises, and after the last one the finally block runs
\* onSetIsGenerating(false).
AfterAwait(u) ==
  [u EXCEPT !.awaiting = @ + 1,
            !.isGenerating = IF u.awaiting = Len(u.resolved)
                               THEN FALSE ELSE @]

\* handleSendMessage resumes from `await promise` of the loop over
\* updatePromises; after the last one its finally block runs
\* onSetIsGenerating(false).
UiResume ==
  /\ ui.mounted
  /\ CallerYielded
  /\ ui.awaiting <= Len(ui.resolved)
  /\ ui.resolved[ui.awaiting]
  /\ ui' = AfterAwait(ui)
  /\ UNCHANGED << configs, env, req, activeRequests, lastRequestTime, now,
                  ticks, pc, idx, cur, results, errors, log, outcome, wakeAt,
                  invoked, dispatchedAt, fed, waitingSince >>

\* What the collaborators answered for one item: checkAuth() ("granted" or
\* "denied"), the adapter (one of AdapterOutcomes) and the storage upload
\* (one of UploadOutcomes); "none" for a collaborator that was not asked.
NoFeed == [auth |-> "none", adapter |-> "none", upload |-> "none"]

\* The value checkAuth() resolves to is known for the item just begun.
FeedAuth(c) ==
  fed' = IF pc'[c] = "authRet" /\ pc[c] # "authRet"
           THEN [fed EXCEPT ![c] = Append(@,
                  [NoFeed EXCEPT !.auth = IF cur'[c].r.success
                                            THEN "granted" ELSE "denied"])]
           ELSE fed

\* ------------------------------------------------------------------------
\* Actions
\* ------------------------------------------------------------------------
\* The caller invokes generateImage / generateImageStream.  The call runs
\* synchronously through getModelStatus and the routing switch into the
\* batch loop, up to the first await: checkAuth() of item 0.
StartCall(c) ==
  /\ pc[c] = "idle"
  /\ req[c] # NoCall
  /\ CallerReaches(c)
  /\ LET modelStatus == getModelStatus(req[c].modelId)
         group == modelStatus.model.group
         msg == IF ~modelStatus.available THEN modelStatus.error
                ELSE "UNSUPPORTED_GROUP"
     IN
     IF ~modelStatus.available \/ group \notin ImplementedGroups
       THEN \* pre-flight failure
            /\ pc' = [pc EXCEPT ![c] = "done"]
            /\ IF req[c].mode = "stream"
                 THEN \E th \in env.throws :
                        /\ log' = [log EXCEPT ![c] =
                             << Threw(ErrorEvent(msg), th.error) >>]
                        /\ outcome' = [outcome EXCEPT ![c] =
                             IF th.error THEN Rejected("CALLBACK_ERROR")
                             ELSE Resolved(NoResponse)]
                 ELSE /\ outcome' = [outcome EXCEPT ![c] = Rejected(msg)]
                      /\ log' = log
            /\ UNCHANGED << cur, invoked >>
       ELSE \E a \in env.authStart :
            /\ pc' = [pc EXCEPT ![c] = AwaitCheckAuth(a).pc]
            /\ cur' = [cur EXCEPT ![c] = AwaitCheckAuth(a).cur]
            /\ invoked' = [invoked EXCEPT ![c].auth = @ + 1]
            /\ UNCHANGED << log, outcome >>
  /\ UNCHANGED dispatchedAt
  /\ UNCHANGED waitingSince
  /\ UiCallbacks(c)
  /\ FeedAuth(c)
  /\ UNCHANGED << configs, env, req, activeRequests, lastRequestTime, now,
                  ticks, idx, results, errors, wakeAt >>

\* checkAuth() settles after real I/O.
AuthDone(c) ==
  /\ pc[c] = "auth"
  /\ CallerYielded
  /\ ~MicrotaskPending
  /\ \E ok \in env.authOk :
       cur' = [cur EXCEPT ![c] = AuthValue(ok)]
  /\ pc' = [pc EXCEPT ![c] = "authRet"]
  /\ UNCHANGED dispatchedAt
  /\ UNCHANGED waitingSince
  /\ UNCHANGED ui
  /\ FeedAuth(c)
  /\ UNCHANGED << configs, env, req, activeRequests, lastRequestTime, now,
                  ticks, idx, results, errors, log, outcome, wakeAt,
                  invoked >>

\* executeRequest calls waitForServiceAvailability: the item of call c
\* begins to wait for admission at the current time; the mark is dropped
\* when the item is dispatched.
EntersWait(c) ==
  waitingSince' = IF pc'[c] \in {"admitted", "poll"}
                    THEN [waitingSince EXCEPT ![c] = now]
                    ELSE waitingSince

\* An executeRequest that does not look at the result of checkAuth().
AuthRet_Unchecked(c) ==
  /\ pc[c] = "authRet"
  /\ CallerYielded
  /\ waitForServiceAvailability(c)
  /\ cur' = [cur EXCEPT ![c] = NoCur]
  /\ UNCHANGED dispatchedAt
  /\ EntersWait(c)
  /\ UNCHANGED ui
  /\ UNCHANGED fed
  /\ UNCHANGED << configs, env, req, activeRequests, lastRequestTime, now,
                  ticks, idx, results, errors, log, outcome, invoked >>

\* executeRequest resumes after checkAuth(): throws AUTH_REQUIRED, or
\* enters waitForServiceAvailability and runs its first check.
AuthRet(c) ==
  /\ pc[c] = "authRet"
  /\ CallerYielded
  /\ IF ~cur[c].r.success
       THEN /\ pc' = [pc EXCEPT ![c] = "execRet"]
            /\ cur' = [cur EXCEPT ![c] = Thrown("AUTH_REQUIRED")]
            /\ wakeAt' = wakeAt
       ELSE /\ waitForServiceAvailability(c)
            /\ cur' = [cur EXCEPT ![c] = NoCur]
  /\ UNCHANGED dispatchedAt
  /\ EntersWait(c)
  /\ UNCHANGED ui
  /\ UNCHANGED fed
  /\ UNCHANGED << configs, env, req, activeRequests, lastRequestTime, now,
                  ticks, idx, results, errors, log, outcome, invoked >>

\* The polling timer of waitForServiceAvailability expires and the loop
\* checks again.
PollFire(c) ==
  /\ pc[c] = "poll"
  /\ CallerYielded
  /\ ~MicrotaskPending
  /\ now >= wakeAt[c]
  /\ waitForServiceAvailability(c)
  /\ UNCHANGED dispatchedAt
  /\ UNCHANGED waitingSince
  /\ UNCHANGED ui
  /\ UNCHANGED fed
  /\ UNCHANGED << configs, env, req, activeRequests, lastRequestTime, now,
                  ticks, idx, cur, results, errors, log, outcome, invoked >>

\* A request function that builds the provider service without looking at
\* the credentials.
CredentialsPresent_Assumed(c) == TRUE

\* The guard at the head of the request function of the provider wrappers:
\* if (!modelConfig || !modelConfig.config_json?.api_key ...) throw.
CredentialsPresent(c) == req[c].hasCredentials

\* An admission that leaves the group's timestamp alone.
StampRequest_Skipped(last, g, t) == last

\* this.lastRequestTime.set(modelGroup, Date.now());
StampRequest(last, g, t) == [last EXCEPT ![g] = t]

\* executeRequest resumes after `await waitForServiceAvailability`: updates
\* the counters and calls requestFn.  A missing credential makes requestFn
\* throw before any adapter exists; the finally block then decrements.
Commit(c) ==
  /\ pc[c] = "admitted"
  /\ CallerYielded
  /\ dispatchedAt' = [dispatchedAt EXCEPT ![c] = now]
  /\ UNCHANGED fed
  /\ waitingSince' = [waitingSince EXCEPT ![c] = 0]
  /\ UNCHANGED ui
  /\ LET g == GroupOf(c) IN
     /\ lastRequestTime' = StampRequest(lastRequestTime, g, now)
     /\ IF CredentialsPresent(c)
          THEN /\ activeRequests' = [activeRequests EXCEPT ![g] = @ + 1]
               /\ pc' = [pc EXCEPT ![c] = "adapter"]
               /\ cur' = cur
               /\ invoked' = [invoked EXCEPT ![c].adapter = @ + 1]
          ELSE /\ activeRequests' = [activeRequests EXCEPT ![g] =
                    AfterRequest(@ + 1, Thrown("CREDENTIALS_MISSING"))]
               /\ pc' = [pc EXCEPT ![c] = "execRet"]
               /\ cur' = [cur EXCEPT ![c] = Thrown("CREDENTIALS_MISSING")]
               /\ invoked' = invoked
  /\ UNCHANGED << configs, env, req, now, ticks, idx, results, errors, log,
                  outcome, wakeAt >>

\* The adapter's promise settles; the finally block of executeRequest
\* decrements the counter and executeRequest settles likewise.
AdapterDone(c) ==
  /\ pc[c] = "adapter"
  /\ CallerYielded
  /\ ~MicrotaskPending
  /\ \E out \in env.adapter :
       /\ cur' = [cur EXCEPT ![c] = AdapterSettles(out)]
       /\ activeRequests' = [activeRequests EXCEPT ![GroupOf(c)] =
            AfterRequest(@, AdapterSettles(out))]
       /\ fed' = [fed EXCEPT ![c][Len(fed[c])].adapter = out]
  /\ pc' = [pc EXCEPT ![c] = "execRet"]
  /\ UNCHANGED dispatchedAt
  /\ UNCHANGED waitingSince
  /\ UNCHANGED ui
  /\ UNCHANGED << configs, env, req, lastRequestTime, now, ticks, idx,
                  results, errors, log, outcome, wakeAt, invoked >>
\* A batch loop that drops the slot of a failed item.
RecordCaught_Dropped(rs, errorResult) == rs

\* The per-item catch block records the failed result: results.push({...}).
RecordCaught(rs, errorResult) == Append(rs, errorResult)

\* The batch loop `for (let i = 0; i < count; i++)` has no further pass
\* after pass i.
LoopExhausted(i, count) == ~(i + 1 < count)

\* A stream that reports nothing until the batch is over.
ReportProgress_Deferred(lg, r, i, count, t) == lg

\* streamRequest.onProgress?.(result, i, count); t says whether the
\* consumer's callback throws.
ReportProgress(lg, r, i, count, t) ==
  Append(lg, Threw(ProgressEvent(r, i, count), t))

\* The rest of one pass of the batch loop once the item's result `first` is
\* known: record it, report it (stream mode), then either start the next
\* item (checkAuth() of item i+1), or build the response and settle.
\* th says which callback invocations throw.
Deliver(c, first, caught, th, a) ==
  LET i == idx[c]
      count == Count(c)
      stream == req[c].mode = "stream"
      \* results.push / errors.push / onProgress
      res1 == IF caught THEN RecordCaught(results[c], first)
              ELSE Append(results[c], first)
      err1 == IF caught THEN errors[c] + 1 ELSE errors[c]
      log1 == IF stream
                THEN ReportProgress(log[c], first, i, count, th.progress)
                ELSE log[c]
      threw1 == stream /\ th.progress
      \* onProgress threw inside the inner try: the inner catch runs
      inner == threw1 /\ ~caught
      second == ErrorResult("CALLBACK_ERROR", i)
      res2 == IF inner THEN Append(res1, second) ELSE res1
      err2 == IF inner THEN err1 + 1 ELSE err1
      log2 == IF inner
                THEN ReportProgress(log1, second, i, count, th.progress2)
                ELSE log1
      \* onProgress threw inside the inner catch: the outer catch runs
      escaped == (threw1 /\ caught) \/ (inner /\ th.progress2)
      last == LoopExhausted(i, count)
      finalResponse == GenerationResponse(res2, count, err2)
      log3 == IF ~escaped /\ last /\ stream
                THEN Append(log2,
                            Threw(CompleteEvent(finalResponse), th.complete))
                ELSE log2
      outer == escaped \/ (last /\ stream /\ th.complete)
      log4 == IF outer
                THEN Append(log3,
                            Threw(ErrorEvent("CALLBACK_ERROR"), th.error))
                ELSE log3
  IN
  \* choices about invocations that do not happen are left at FALSE
  /\ th.progress2 => inner
  /\ th.complete => (stream /\ last /\ ~escaped)
  /\ th.error => outer
  /\ (a = "none") <=> (outer \/ last)
  /\ results' = [results EXCEPT ![c] = res2]
  /\ errors' = [errors EXCEPT ![c] = err2]
  /\ log' = [log EXCEPT ![c] = log4]
  /\ IF outer
       THEN /\ pc' = [pc EXCEPT ![c] = "done"]
            /\ outcome' = [outcome EXCEPT ![c] =
                 IF th.error THEN Rejected("CALLBACK_ERROR")
                 ELSE Resolved(NoResponse)]
            /\ UNCHANGED << idx, cur, invoked >>
       ELSE IF last
         THEN /\ pc' = [pc EXCEPT ![c] = "done"]
              /\ outcome' = [outcome EXCEPT ![c] =
                   IF stream THEN Resolved(NoResponse)
                   ELSE Resolved(finalResponse)]
              /\ UNCHANGED << idx, cur, invoked >>
         ELSE /\ idx' = [idx EXCEPT ![c] = i + 1]
              /\ pc' = [pc EXCEPT ![c] = AwaitCheckAuth(a).pc]
              /\ cur' = [cur EXCEPT ![c] = AwaitCheckAuth(a).cur]
              /\ invoked' = [invoked EXCEPT ![c].auth = @ + 1]
              /\ outcome' = outcome

\* Callback behaviours that matter to a call: an aggregate call has no
\* callbacks.
ThrowsFor(c) == IF req[c].mode = "stream" THEN env.throws ELSE {NoThrow}

\* The batch function returns: the dispatch time of its last item is of no
\* further use.
ForgetWhenDone(c) ==
  dispatchedAt' = IF pc'[c] = "done"
                    THEN [dispatchedAt EXCEPT ![c] = 0]
                    ELSE dispatchedAt

\* The batch loop resumes after `await executeRequest`: a rejection goes to
\* the per-item catch; a result goes to uploadToStorageIfNeeded, which
\* either calls the storage service or returns the result as it is.
ExecRet(c) ==
  /\ pc[c] = "execRet"
  /\ CallerYielded
  /\ IF cur[c].thrown
       THEN \E th \in ThrowsFor(c), a \in env.authStart \cup {"none"} :
              Deliver(c, ErrorResult(cur[c].error, idx[c]), TRUE, th, a)
       ELSE /\ pc' = [pc EXCEPT ![c] =
                 IF NeedsUpload(cur[c].r) THEN "upload" ELSE "uploadRet"]
            /\ invoked' = [invoked EXCEPT ![c].upload =
                 IF NeedsUpload(cur[c].r) THEN @ + 1 ELSE @]
            /\ UNCHANGED << idx, cur, results, errors, log, outcome >>
  /\ ForgetWhenDone(c)
  /\ UNCHANGED waitingSince
  /\ UiCallbacks(c)
  /\ FeedAuth(c)
  /\ UNCHANGED << configs, env, req, activeRequests, lastRequestTime, now,
                  ticks, wakeAt >>

\* storageService.uploadImageFromUrl settles and uploadToStorageIfNeeded
\* returns.
UploadDone(c) ==
  /\ pc[c] = "upload"
  /\ CallerYielded
  /\ ~MicrotaskPending
  /\ \E uout \in env.upload :
       /\ cur' = [cur EXCEPT ![c] =
            Returned(uploadToStorageIfNeeded(cur[c].r, uout))]
       /\ fed' = [fed EXCEPT ![c][Len(fed[c])].upload = uout]
  /\ pc' = [pc EXCEPT ![c] = "uploadRet"]
  /\ UNCHANGED dispatchedAt
  /\ UNCHANGED waitingSince
  /\ UNCHANGED ui
  /\ UNCHANGED << configs, env, req, activeRequests, lastRequestTime, now,
                  ticks, idx, results, errors, log, outcome, wakeAt,
                  invoked >>

\* The batch loop resumes after `await uploadToStorageIfNeeded`.
UploadRet(c) ==
  /\ pc[c] = "uploadRet"
  /\ CallerYielded
  /\ \E th \in ThrowsFor(c), a \in env.authStart \cup {"none"} :
       Deliver(c, [cur[c].r EXCEPT !.item = idx[c]], FALSE, th, a)
  /\ ForgetWhenDone(c)
  /\ UNCHANGED waitingSince
  /\ UiCallbacks(c)
  /\ FeedAuth(c)
  /\ UNCHANGED << configs, env, req, activeRequests, lastRequestTime, now,
                  ticks, wakeAt >>

\* Nothing but the passage of time can happen, and time is what some
\* waiter lacks: every unfinished call sleeps on a polling timer that has
\* not expired, and the group of one of them has a free slot.
ClockNeeded ==
  /\ \A c \in Calls :
       \/ pc[c] = "done"
       \/ pc[c] = "idle" /\ req[c] = NoCall
       \/ pc[c] = "poll" /\ now < wakeAt[c]
  /\ \E c \in Calls :
       /\ pc[c] = "poll"
       /\ activeRequests[GroupOf(c)]
            < getModelConfigByGroup(GroupOf(c)).maxConcurrent

\* The wall clock advances.  Only the admission check and the commit read
\* the clock, so it is advanced while some waiter sleeps on its polling
\* timer: at most MaxTicks times at an arbitrary moment by an arbitrary
\* step, and by a whole cooldown whenever nothing else can happen.
Tick ==
  /\ ~MicrotaskPending
  /\ CallerYielded
  /\ \E c \in Calls : pc[c] = "poll"
  /\ IF ticks < MaxTicks
       THEN /\ \E d \in env.tickSteps : now' = now + d
            /\ ticks' = ticks + 1
       ELSE /\ ClockNeeded
            /\ now' = now + ConfiguredCooldownMs
            /\ ticks' = ticks
  /\ UNCHANGED dispatchedAt
  /\ UNCHANGED waitingSince
  /\ UNCHANGED ui
  /\ UNCHANGED fed
  /\ UNCHANGED << configs, env, req, activeRequests, lastRequestTime, pc,
                  idx, cur, results, errors, log, outcome, wakeAt, invoked >>

\* No checkAuth(), adapter or uploadImageFromUrl invocation yet.
NoInvocations == [auth |-> 0, adapter |-> 0, upload |-> 0]

\* ------------------------------------------------------------------------
\* Initial states
\* ------------------------------------------------------------------------
\* initializeCounters, and every call not yet issued
InitState ==
  /\ activeRequests = [g \in DOMAIN configs |-> 0]
  /\ lastRequestTime = [g \in DOMAIN configs |-> 0]
  /\ now = StartTime
  /\ ticks = 0
  /\ pc = [c \in Calls |-> "idle"]
  /\ idx = [c \in Calls |-> 0]
  /\ cur = [c \in Calls |-> NoCur]
  /\ results = [c \in Calls |-> << >>]
  /\ errors = [c \in Calls |-> 0]
  /\ log = [c \in Calls |-> << >>]
  /\ outcome = [c \in Calls |-> Pending]
  /\ wakeAt = [c \in Calls |-> 0]
  /\ invoked = [c \in Calls |-> NoInvocations]
  /\ dispatchedAt = [c \in Calls |-> 0]
  /\ fed = [c \in Calls |-> << >>]
  /\ waitingSince = [c \in Calls |-> 0]

\* Every behaviour of the collaborators.
FullEnv ==
  [adapter |-> AdapterOutcomes, upload |-> UploadOutcomes,
   throws |-> ThrowChoices, authStart |-> AuthStarts, authOk |-> BOOLEAN,
   tickSteps |-> TickSteps]

\* One call, any request, any collaborator behaviour; the shipped
\* configuration, the one without cooldown, or, for a call to a doubao
\* model, the shipped one with the entry of doubao missing.
Init ==
  /\ configs \in {cf \in ConfigChoices :
                    cf["openai"].maxConcurrent = ConfiguredMaxConcurrent}
                 \cup {WithoutGroup(ShippedConfigs, "doubao")}
  /\ env = FullEnv
  /\ \E r \in Requests :
       req = [c \in Calls |-> IF c = 1 THEN r ELSE NoCall]
  /\ ("doubao" \notin DOMAIN configs)
       => getModelById(req[1].modelId).group = "doubao"
  /\ InitState
  /\ ui = NoUi

\* Concurrent calls against the implemented groups; the adapter succeeds or
\* throws, callbacks return normally.
ConcEnv ==
  [adapter |-> {"img", "throw"}, upload |-> {"ok"},
   throws |-> {NoThrow}, authStart |-> {"slow", "granted"},
   authOk |-> BOOLEAN, tickSteps |-> {ConfiguredCooldownMs}]

\* Call c of the concurrent workload: odd calls are aggregate, even calls
\* stream; every call targets openai, except that the last may target
\* doubao; call 1 may lack credentials; the calls after the second ask for
\* one item.
ConcRequests(c) ==
  [mode : {IF c % 2 = 1 THEN "aggregate" ELSE "stream"},
   modelId : IF c < NumCalls THEN {"gpt_4o"}
             ELSE {"gpt_4o", "high_aes_general_v21_L"},
   count : IF c > 2 THEN {1} ELSE 1..MaxCount, streamCount : {0},
   hasCredentials : IF c = 1 THEN BOOLEAN ELSE {TRUE}]

\* The shipped configuration and the serial one of the spec's scenario,
\* {maxConcurrent: 1, cooldownMs: 0}.
ConcConfigs ==
  {cf \in ConfigChoices :
     \/ cf = ShippedConfigs
     \/ cf["openai"] = [maxConcurrent |-> 1, cooldownMs |-> 0]}

RECURSIVE TotalItems(_, _)
TotalItems(r, n) ==
  IF n = 0 THEN 0 ELSE r[n].count + TotalItems(r, n - 1)

InitConc ==
  /\ configs \in ConcConfigs
  /\ env = ConcEnv
  /\ req \in [Calls -> UNION {ConcRequests(c) : c \in Calls}]
  /\ \A c \in Calls : req[c] \in ConcRequests(c)
  /\ TotalItems(req, NumCalls) <= MaxItems
  /\ InitState
  /\ ui = NoUi

Next ==
  \/ \E c \in Calls : StartCall(c)
  \/ \E c \in Calls : AuthDone(c)
  \/ \E c \in Calls : AuthRet(c)
  \/ \E c \in Calls : PollFire(c)
  \/ \E c \in Calls : Commit(c)
  \/ \E c \in Calls : AdapterDone(c)
  \/ \E c \in Calls : ExecRet(c)
  \/ \E c \in Calls : UploadDone(c)
  \/ \E c \in Calls : UploadRet(c)
  \/ Tick

Spec == Init /\ [][Next]_vars

\* The chat as the dispatcher's caller: the user is signed in, the adapter
\* returns an image or a failure or throws, and the message's callbacks
\* return normally.
UiEnv ==
  [adapter |-> {"img", "fail", "throw"}, upload |-> {"ok"},
   throws |-> {NoThrow}, authStart |-> {"slow", "granted"},
   authOk |-> {TRUE}, tickSteps |-> {ConfiguredCooldownMs}]

DoubaoIds ==
  << "high_aes_general_v21_L", "high_aes_general_v20_L",
     "high_aes_general_v20", "high_aes_general_v14",
     "t2i_xl_sft" >>

\* The c-th selected model: selectedModels holds each model once, with a
\* count of MIN_COUNT or more; the first is an openai model or one of the
\* group without adapter, the others are doubao models.
UiRequests(c) ==
  [mode : {"stream"},
   modelId : IF c = 1 THEN {"gpt_4o", "cogView-4-250304"}
             ELSE {DoubaoIds[c - 1]},
   count : 1..MaxCount,
   streamCount : 1..MaxCount,
   hasCredentials : IF c = 1 THEN BOOLEAN ELSE {TRUE}]

InitUI ==
  /\ configs \in ConcConfigs
  /\ env = UiEnv
  /\ req \in [Calls -> UNION {UiRequests(c) : c \in Calls}]
  /\ \A c \in Calls : /\ req[c] \in UiRequests(c)
                       /\ req[c].streamCount = req[c].count
                       /\ (c > 1 => req[c].count <= req[c - 1].count)
  /\ TotalItems(req, NumCalls) <= MaxItems
  /\ InitState
  /\ ui = InitialUi([c \in Calls |-> req[c].count])

NextUI ==
  \/ Next
  \/ UiResume

SpecUI == InitUI /\ [][NextUI]_vars

\* handleSendMessage's continuation after `await promise` is a job of the
\* event loop: once the awaited promise is resolved, it runs.
SpecUIFair == SpecUI /\ WF_vars(UiResume)

SpecConc == InitConc /\ [][Next]_vars

\* As ConcEnv, with a caller who stays authenticated.
LiveEnv == [ConcEnv EXCEPT !.authOk = {TRUE}]

\* The concurrent workload of authenticated calls with credentials, all for
\* gpt_4o, no call asking for more items than the call before it.
InitLive ==
  /\ configs \in ConcConfigs
  /\ env = LiveEnv
  /\ req \in [Calls -> UNION {ConcRequests(c) : c \in Calls}]
  /\ \A c \in Calls :
       /\ req[c] \in ConcRequests(c)
       /\ req[c].modelId = "gpt_4o"
       /\ req[c].hasCredentials
       /\ (c > 1 => req[c].count <= req[c - 1].count)
  /\ TotalItems(req, NumCalls) <= MaxItems
  /\ InitState
  /\ ui = NoUi

\* The event loop runs every continuation that is ready and every timer
\* that has expired, the clock advances, every call is issued, and the
\* collaborators (checkAuth, the adapter, the storage upload) terminate.
Fairness ==
  /\ \A c \in Calls :
       /\ WF_vars(StartCall(c))
       /\ WF_vars(AuthDone(c))
       /\ WF_vars(AuthRet(c))
       /\ WF_vars(PollFire(c))
       /\ WF_vars(Commit(c))
       /\ WF_vars(AdapterDone(c))
       /\ WF_vars(ExecRet(c))
       /\ WF_vars(UploadDone(c))
       /\ WF_vars(UploadRet(c))
  /\ WF_vars(Tick)

SpecLive == InitLive /\ [][Next]_vars /\ Fairness
\* ========================================================================
\* Properties
\* ========================================================================
\* Calls whose adapter invocation is in flight for group g: admitted
\* (counter incremented) and not yet released (decremented).
InFlight(g) ==
  Cardinality({c \in Calls : pc[c] = "adapter" /\ GroupOf(c) = g})

PreflightOk(c) ==
  /\ req[c] # NoCall
  /\ getModelStatus(req[c].modelId).available
  /\ GroupOf(c) \in ImplementedGroups

IsStream(c) == req[c] # NoCall /\ req[c].mode = "stream"
IsAggregate(c) == req[c] # NoCall /\ req[c].mode = "aggregate"

\* The callbacks of the given kinds invoked so far by call c, in order.
Events(c, kinds) == SelectSeq(log[c], LAMBDA e : e.kind \in kinds)

\* C1 -- Admission bound: in every reachable state and for every provider
\* group g, the number of items admitted for g and not yet released, and
\* the counter activeRequests[g] itself, are at most maxConcurrent[g].
C1_AdmissionBound ==
  \A g \in Groups :
    /\ InFlight(g) <= configs[g].maxConcurrent
    /\ activeRequests[g] <= configs[g].maxConcurrent

\* C2 -- Check-then-commit is atomic: while a call has passed its admission
\* check for g and has not yet committed (incremented activeRequests[g] and
\* set lastRequestTime[g]), no other call runs an admission check for g or
\* updates the ledger of g.
C2_CheckThenCommitAtomic ==
  [][ \A c \in Calls :
        (pc[c] = "admitted" /\ pc'[c] = "admitted") =>
          /\ activeRequests'[GroupOf(c)] = activeRequests[GroupOf(c)]
          /\ lastRequestTime'[GroupOf(c)] = lastRequestTime[GroupOf(c)]
          /\ \A d \in Calls \ {c} :
               (PreflightOk(d) /\ GroupOf(d) = GroupOf(c)) =>
                 /\ ~(pc[d] = "authRet" /\ pc'[d] \in {"admitted", "poll"})
                 /\ ~(pc[d] = "admitted" /\ pc'[d] # "admitted") ]_vars

\* C3 -- Cooldown respected across calls: every admission commit in group g
\* happens at least cooldownMs[g] after the previous commit in g (whose time
\* is lastRequestTime[g]), whichever calls the two dispatches belong to.
C3_CooldownRespected ==
  [][ \A c \in Calls :
        (pc[c] = "admitted" /\ pc'[c] # "admitted") =>
          now - lastRequestTime[GroupOf(c)]
            >= configs[GroupOf(c)].cooldownMs ]_vars

\* C4 -- With maxConcurrent = 1 and cooldownMs = 0 for group g and
\* concurrent calls of one item each in g, the adapter invocations of two
\* calls never overlap: the second starts only after the first has
\* decremented activeRequests[g].
C4_NoOverlapWhenSerial ==
  \A c, d \in Calls :
    ( /\ c # d
      /\ GroupOf(c) = GroupOf(d)
      /\ Count(c) = 1 /\ Count(d) = 1
      /\ configs[GroupOf(c)].maxConcurrent = 1
      /\ configs[GroupOf(c)].cooldownMs = 0 )
    => ~(pc[c] = "adapter" /\ pc[d] = "adapter")

\* C5 -- Ledger accounting: activeRequests[g] always equals the number of
\* adapter invocations in flight for g (each admitted item is released
\* exactly once, whether the adapter returns or throws), is never negative,
\* and is 0 for every group when no call is in progress.
C5_LedgerAccounting ==
  \A g \in Groups :
    /\ activeRequests[g] = InFlight(g)
    /\ activeRequests[g] >= 0
    /\ (\A c \in Calls : pc[c] \in {"idle", "done"}) => activeRequests[g] = 0

\* An item was released after its adapter threw while another call's item
\* of the same group is still in flight.
C5_Witness ==
  \E c, d \in Calls :
    /\ c # d
    /\ GroupOf(c) = GroupOf(d)
    /\ pc[c] = "execRet"
    /\ cur[c].thrown /\ cur[c].error = "PROVIDER_ERROR"
    /\ pc[d] = "adapter"
    /\ activeRequests[GroupOf(c)] = 1

\* C6 -- Completeness in aggregate mode: a generate call for a resolvable
\* model of an implemented provider with count N >= 1 never rejects; it
\* resolves with exactly N entries in results and totalRequested = N,
\* also when every item fails.
C6_AggregateCompleteness ==
  \A c \in Calls :
    (IsAggregate(c) /\ PreflightOk(c) /\ req[c].count >= 1) =>
      /\ outcome[c].state # "rejected"
      /\ pc[c] = "done" =>
           /\ outcome[c].state = "resolved"
           /\ Len(outcome[c].resp.results) = req[c].count
           /\ outcome[c].resp.totalRequested = req[c].count

\* A generate call with count = MaxCount has resolved and every item failed.
C6_Witness ==
  \E c \in Calls :
    /\ IsAggregate(c) /\ PreflightOk(c)
    /\ req[c].count = MaxCount
    /\ outcome[c].state = "resolved"
    /\ Len(outcome[c].resp.results) = MaxCount
    /\ \A k \in 1..MaxCount : ~outcome[c].resp.results[k].success

\* C7 -- Order preservation: the i-th entry of the results list and the
\* i-th onProgress call (carrying index i) are the outcome of the i-th item
\* dispatched, for every pattern of successes and failures.
C7_OrderPreservation ==
  \A c \in Calls :
    /\ \A k \in 1..Len(results[c]) : results[c][k].item = k - 1
    /\ LET progress == Events(c, {"progress"}) IN
       \A k \in 1..Len(progress) :
         /\ progress[k].index = k - 1
         /\ progress[k].r.item = k - 1
         /\ progress[k].r = results[c][k]

\* C8 -- Streaming protocol: a generateStream call for a resolvable model of
\* an implemented provider with effective count N invokes onProgress exactly
\* N times, with indices 0..N-1 in ascending order and total = N, then
\* onComplete exactly once after the last onProgress; onError is not
\* invoked.
C8_StreamingProtocol ==
  \A c \in Calls :
    (IsStream(c) /\ PreflightOk(c)) =>
      LET progress == Events(c, {"progress"}) IN
      /\ Events(c, {"error"}) = << >>
      /\ Len(progress) <= Count(c)
      /\ \A k \in 1..Len(progress) :
           progress[k].index = k - 1 /\ progress[k].total = Count(c)
      /\ Len(Events(c, {"complete"})) <= 1
      /\ pc[c] = "done" =>
           /\ Len(progress) = Count(c)
           /\ Len(log[c]) = Count(c) + 1
           /\ log[c][Len(log[c])].kind = "complete"

\* C9 -- Terminal callbacks are mutually exclusive: a generateStream call
\* invokes exactly one of onComplete and onError, exactly once; onError is
\* never invoked after onComplete (also when onComplete throws), and
\* nothing follows the terminal callback.
C9_TerminalExclusive ==
  \A c \in Calls :
    IsStream(c) =>
      LET terminal == Events(c, {"complete", "error"}) IN
      /\ Len(terminal) <= 1
      /\ Len(terminal) = 1 => log[c][Len(log[c])].kind \in {"complete", "error"}
      /\ pc[c] = "done" => Len(terminal) = 1

\* Some item of call c failed its authentication check.
AuthFailed(c) ==
  \/ pc[c] = "execRet" /\ cur[c].thrown /\ cur[c].error = "AUTH_REQUIRED"
  \/ \E k \in 1..Len(results[c]) : results[c][k].error = "AUTH_REQUIRED"

\* C10 -- AuthRequired is fatal to the whole call: when the caller is not
\* authenticated, generate rejects with AuthRequired instead of resolving
\* with a result list, and generateStream invokes onError with AuthRequired
\* and neither onProgress nor onComplete.
C10_AuthRequiredFatal ==
  \A c \in Calls :
    (AuthFailed(c) /\ pc[c] = "done") =>
      IF IsAggregate(c)
        THEN outcome[c] = Rejected("AUTH_REQUIRED")
        ELSE log[c] = << ErrorEvent("AUTH_REQUIRED") >>

\* The step leaves the admission ledger of every group as it was.
LedgerUntouched ==
  /\ activeRequests' = activeRequests
  /\ lastRequestTime' = lastRequestTime

\* The step makes no adapter invocation and no re-hosting call for call c.
NothingInvoked(c) ==
  /\ invoked'[c].adapter = invoked[c].adapter
  /\ invoked'[c].upload = invoked[c].upload

\* C11 -- Nothing is attempted while unauthenticated: checkAuth() is
\* consulted once for each item, before the item's admission wait; an item
\* whose check fails throws AUTH_REQUIRED and goes to the per-item catch
\* with no adapter invocation, no re-hosting call, and activeRequests and
\* lastRequestTime of every group unchanged.
C11_NothingWhileUnauthenticated ==
  [][ \A c \in Calls :
        /\ (pc[c] \notin {"idle", "done"}) => invoked[c].auth = idx[c] + 1
        /\ (pc'[c] \in {"admitted", "poll"} /\ pc[c] \notin {"admitted", "poll"})
             => (pc[c] = "authRet" /\ cur[c].r.success)
        /\ (pc[c] = "authRet" /\ ~cur[c].r.success /\ pc'[c] # pc[c]) =>
             /\ pc'[c] = "execRet"
             /\ cur'[c] = Thrown("AUTH_REQUIRED")
             /\ LedgerUntouched
             /\ NothingInvoked(c)
        /\ (pc[c] = "execRet" /\ cur[c] = Thrown("AUTH_REQUIRED")
              /\ pc'[c] # pc[c]) =>
             /\ pc'[c] \in {"auth", "authRet", "done"}
             /\ LedgerUntouched
             /\ NothingInvoked(c) ]_vars

\* Item 0 of a call was dispatched to the adapter and re-hosted, then item 1
\* failed its authentication check.
C11_Witness ==
  \E c \in Calls :
    /\ pc[c] = "execRet"
    /\ cur[c] = Thrown("AUTH_REQUIRED")
    /\ idx[c] = 1
    /\ invoked[c] = [auth |-> 2, adapter |-> 1, upload |-> 1]

\* The error a call fails with before its batch loop starts, "none" when it
\* reaches the loop: unknown model id, group without configuration, or a
\* case of the routing switch that has no adapter.
PreflightError(c) ==
  LET id == req[c].modelId IN
  IF \A m \in models : m.id # id THEN "MODEL_NOT_FOUND"
  ELSE LET g == (CHOOSE m \in models : m.id = id).group IN
       IF g \notin DOMAIN configs THEN "GROUP_CONFIG_MISSING"
       ELSE IF g \in {"cogview", "tongyi", "jimeng"} THEN "UNSUPPORTED_GROUP"
       ELSE "none"

\* C12 -- Pre-flight failure in aggregate mode: generate for an unknown
\* model id, a model whose group has no configuration, or a model of an
\* unimplemented group (cogview, tongyi, jimeng) rejects in its first step
\* with no authentication check, no adapter invocation and no re-hosting
\* call, and leaves the admission ledger of every group unchanged.
C12_PreflightAggregate ==
  [][ \A c \in Calls :
        (IsAggregate(c) /\ PreflightError(c) # "none") =>
          /\ invoked'[c] = NoInvocations
          /\ log'[c] = << >>
          /\ pc'[c] \in {"idle", "done"}
          /\ (pc'[c] # pc[c]) =>
               /\ outcome'[c] = Rejected(PreflightError(c))
               /\ LedgerUntouched ]_vars

\* A generate call for a model whose group has no configuration has
\* rejected.
C12_Witness ==
  \E c \in Calls :
    /\ IsAggregate(c)
    /\ GroupOf(c) = "doubao"
    /\ pc[c] = "done"
    /\ outcome[c] = Rejected("GROUP_CONFIG_MISSING")

\* C13 -- Pre-flight failure in streaming mode: generateStream for an
\* unknown model id or a model of an unimplemented group invokes onError
\* exactly once and neither onProgress nor onComplete, makes no
\* authentication check, adapter invocation or re-hosting call, leaves the
\* admission ledger unchanged, and its returned promise resolves.
C13_PreflightStream ==
  [][ \A c \in Calls :
        (IsStream(c)
           /\ PreflightError(c) \in {"MODEL_NOT_FOUND", "UNSUPPORTED_GROUP"}) =>
          /\ invoked'[c] = NoInvocations
          /\ pc'[c] \in {"idle", "done"}
          /\ (pc'[c] # pc[c]) =>
               /\ Len(log'[c]) = 1
               /\ log'[c][1].kind = "error"
               /\ log'[c][1].error = PreflightError(c)
               /\ outcome'[c] = Resolved(NoResponse)
               /\ LedgerUntouched ]_vars

\* C13 (amended) -- as C13, except that the returned promise resolves when
\* onError returns and rejects with onError's own exception when onError
\* throws.
C13_PreflightStreamAmended ==
  [][ \A c \in Calls :
        (IsStream(c)
           /\ PreflightError(c) \in {"MODEL_NOT_FOUND", "UNSUPPORTED_GROUP"}) =>
          /\ invoked'[c] = NoInvocations
          /\ pc'[c] \in {"idle", "done"}
          /\ (pc'[c] # pc[c]) =>
               /\ Len(log'[c]) = 1
               /\ log'[c][1].kind = "error"
               /\ log'[c][1].error = PreflightError(c)
               /\ outcome'[c] = IF log'[c][1].threw
                                  THEN Rejected("CALLBACK_ERROR")
                                  ELSE Resolved(NoResponse)
               /\ LedgerUntouched ]_vars

\* A generateStream call for an unknown model id has ended with one onError
\* invocation, which threw.
C13_Witness ==
  \E c \in Calls :
    /\ IsStream(c)
    /\ PreflightError(c) = "MODEL_NOT_FOUND"
    /\ pc[c] = "done"
    /\ Len(log[c]) = 1
    /\ log[c][1].kind = "error" /\ log[c][1].threw
    /\ outcome[c].state = "rejected"

\* Errors an adapter invocation can end with.
AdapterErrors == {"PROVIDER_ERROR", "UNKNOWN_ERROR"}

\* C14 -- Item independence: when the adapter throws for item i, the item is
\* recorded as a failed result carrying the thrown error's message, and the
\* batch goes on to authenticate, admit and dispatch item i+1 (if any); a
\* call with credentials whose items all pass authentication has invoked
\* the adapter N = count times when it ends.
C14_ItemIndependence ==
  [][ \A c \in Calls :
        /\ (pc[c] = "execRet" /\ cur[c].thrown
              /\ cur[c].error \in AdapterErrors /\ pc'[c] # pc[c]) =>
             /\ Len(results'[c]) = Len(results[c]) + 1
             /\ results'[c][Len(results'[c])] =
                  ErrorResult(cur[c].error, idx[c])
             /\ (idx[c] + 1 < Count(c)) =>
                  /\ idx'[c] = idx[c] + 1
                  /\ pc'[c] \in {"auth", "authRet"}
                  /\ invoked'[c].auth = invoked[c].auth + 1
        /\ (PreflightOk(c) /\ req[c].hasCredentials /\ pc'[c] = "done"
              /\ ~AuthFailed(c)') =>
             invoked'[c].adapter = Count(c) ]_vars

\* The response a call has handed to its caller: the value generate
\* resolved with, or the argument of onComplete.
Delivered(c) ==
  IF IsAggregate(c) THEN outcome[c].resp
  ELSE LET done == Events(c, {"complete"}) IN
       IF done = << >> THEN NoResponse ELSE done[1].resp

\* C15 -- Missing credentials are per-item failures: an authenticated call
\* with count N to an implemented provider, made without the provider's
\* credentials, does not reject and does not invoke onError; it ends with
\* exactly N failed results, each carrying the credential error message,
\* and the provider service is never constructed or called.
C15_MissingCredentialsPerItem ==
  \A c \in Calls :
    (PreflightOk(c) /\ ~req[c].hasCredentials /\ ~AuthFailed(c)) =>
      /\ invoked[c].adapter = 0
      /\ outcome[c].state # "rejected"
      /\ Events(c, {"error"}) = << >>
      /\ \A k \in 1..Len(results[c]) :
           results[c][k] = ErrorResult("CREDENTIALS_MISSING", k - 1)
      /\ pc[c] = "done" =>
           /\ Len(results[c]) = Count(c)
           /\ Delivered(c).results = results[c]

\* The notes uploadToStorageIfNeeded appends when it keeps the original
\* link.
FallbackNotes == {"uploadFailed", "uploadException"}

FellBack(r) == r.message # << >> /\ r.message[Len(r.message)] \in FallbackNotes

\* C16 -- Re-hosting degrades gracefully: when the adapter returned
\* {success: true, imageUrl: X} and the storage upload reports failure or
\* throws, uploadToStorageIfNeeded returns (never throws) a result with
\* success = true, imageUrl = X and a fallback note appended to the status
\* message; the batch records that result for the item, and the summary
\* counts it as successful.
C16_RehostingDegrades ==
  [][ \A c \in Calls :
        /\ (pc[c] = "upload" /\ pc'[c] # pc[c]) =>
             /\ ~cur'[c].thrown
             /\ cur'[c].r.success
             /\ Len(cur'[c].r.message) = Len(cur[c].r.message) + 1
             /\ FellBack(cur'[c].r) => cur'[c].r.imageUrl = cur[c].r.imageUrl
        /\ (pc[c] = "uploadRet" /\ pc'[c] # pc[c]) =>
             results'[c][Len(results[c]) + 1] = [cur[c].r EXCEPT !.item = idx[c]]
        /\ \A k \in 1..Len(Delivered(c)'.results) :
             LET r == Delivered(c)'.results[k] IN
             FellBack(r) => (r.success /\ r.imageUrl = "orig")
        /\ Delivered(c)'.successful =
             Cardinality({k \in 1..Len(Delivered(c)'.results) :
                            Delivered(c)'.results[k].success}) ]_vars

\* A call has delivered a response in which an item whose upload threw is
\* a success with the adapter's own link, and is the one counted success.
C16_Witness ==
  \E c \in Calls :
    /\ pc[c] = "done"
    /\ Delivered(c).successful = 1
    /\ \E k \in 1..Len(Delivered(c).results) :
         LET r == Delivered(c).results[k] IN
         /\ r.success /\ r.imageUrl = "orig"
         /\ r.message = << "uploadException" >>

\* The items of call c that have a recorded result.
Recorded(c) == {results[c][k].item : k \in 1..Len(results[c])}

\* Re-hosting of a result is over: it was not needed, or its note is there.
Rehosted(r) == (r.success /\ r.imageUrl # "none") => r.message # << >>

\* Call c is between the start and the end of the work on item idx[c].
InProgress(c) == pc[c] \notin {"idle", "done"}

\* C17 -- Strict sequencing within a call: a call works on one item at a
\* time.  While it is in progress on item i, exactly the items 0..i-1 have
\* been recorded, each after its re-hosting was over, and one
\* authentication check, at most one adapter invocation and at most one
\* re-hosting call have been made per item begun; item i+1 begins only in
\* the step that records item i, after item i's adapter call and re-hosting
\* have finished.
C17_StrictSequencing ==
  [][ \A c \in Calls :
        /\ InProgress(c) =>
             /\ Recorded(c) = 0..(idx[c] - 1)
             /\ invoked[c].auth = idx[c] + 1
             /\ invoked[c].adapter <= idx[c] + 1
             /\ invoked[c].upload <= idx[c] + 1
             /\ pc[c] \in {"auth", "authRet", "poll", "admitted"} =>
                  /\ invoked[c].adapter <= idx[c]
                  /\ invoked[c].upload <= idx[c]
        /\ \A k \in 1..Len(results[c]) :
             results[c][k].item < idx[c] => Rehosted(results[c][k])
        /\ (InProgress(c) /\ idx'[c] # idx[c]) =>
             /\ idx'[c] = idx[c] + 1
             /\ pc[c] \in {"execRet", "uploadRet"}
             /\ pc'[c] \in {"auth", "authRet"}
             /\ idx[c] \in Recorded(c)'
             /\ \A k \in 1..Len(results'[c]) : Rehosted(results'[c][k]) ]_vars

\* Item 1 of a call is waiting for admission after item 0 was dispatched,
\* re-hosted and recorded.
C17_Witness ==
  \E c \in Calls :
    /\ pc[c] = "poll"
    /\ idx[c] = 1
    /\ Len(results[c]) = 1
    /\ results[c][1].imageUrl = "stored"
    /\ invoked[c] = [auth |-> 2, adapter |-> 1, upload |-> 1]

\* C18 -- Incremental delivery: in streaming mode onProgress for item i is
\* invoked in the step in which the batch loop resumes from item i's
\* adapter call and re-hosting, with the re-hosted result, and that step is
\* the one that begins item i+1: while item i+1 is being authenticated,
\* admitted or dispatched, every item up to i has been reported and item
\* i+1 has not.
C18_IncrementalDelivery ==
  [][ \A c \in Calls :
        IsStream(c) =>
          LET progress == Events(c, {"progress"})
              reported == {progress[k].index : k \in 1..Len(progress)}
          IN
          /\ InProgress(c) => reported = 0..(idx[c] - 1)
          /\ \A k \in 1..Len(progress) : Rehosted(progress[k].r)
          /\ (InProgress(c) /\ log'[c] # log[c]) =>
               /\ pc[c] \in {"execRet", "uploadRet"}
               /\ log'[c][Len(log[c]) + 1].kind = "progress"
               /\ log'[c][Len(log[c]) + 1].index = idx[c]
          /\ (InProgress(c) /\ idx'[c] # idx[c]) =>
               /\ log'[c][Len(log'[c])].kind = "progress"
               /\ log'[c][Len(log'[c])].index = idx[c] ]_vars

\* A streaming call is waiting for the adapter of item 1 and has reported
\* item 0, re-hosted, and nothing else.
C18_Witness ==
  \E c \in Calls :
    /\ IsStream(c)
    /\ pc[c] = "adapter"
    /\ idx[c] = 1
    /\ Len(log[c]) = 1
    /\ log[c][1].kind = "progress" /\ log[c][1].index = 0
    /\ log[c][1].r.imageUrl = "stored"

\* Every response a call has built: the one generate resolved with, and
\* the argument of each onComplete invocation.
Responses(c) ==
  {log[c][k].resp : k \in {j \in 1..Len(log[c]) : log[c][j].kind = "complete"}}
  \cup (IF outcome[c].state = "resolved" /\ IsAggregate(c)
          THEN {outcome[c].resp} ELSE {})

\* C20 -- Summary consistency: in the response returned by generate and in
\* the one passed to onComplete, successful is the number of results with
\* success = true, failed is the number of results with success = false,
\* and successful + failed = totalRequested = length of results, also when
\* the adapter returns (rather than throws) a result with success = false.
C20_SummaryConsistency ==
  \A c \in Calls : \A resp \in Responses(c) :
    LET n == Len(resp.results)
        ok == Cardinality({k \in 1..n : resp.results[k].success})
        ko == Cardinality({k \in 1..n : ~resp.results[k].success})
    IN
    /\ resp.successful = ok
    /\ resp.failed = ko
    /\ resp.successful + resp.failed = resp.totalRequested
    /\ resp.totalRequested = n

\* Call c has handed its caller the end of the call: generate has resolved,
\* generateStream has invoked onComplete or onError.
Terminated(c) ==
  /\ pc[c] = "done"
  /\ IF IsAggregate(c) THEN outcome[c].state = "resolved"
     ELSE Events(c, {"complete", "error"}) # << >>

\* C19 -- Termination: when every authentication check, adapter call and
\* re-hosting call terminates, every call of a finite set of calls with
\* finite counts eventually resolves (aggregate) or invokes its terminal
\* callback (stream); no admission waiter polls forever, and from then on
\* activeRequests is 0 for every group.
C19_Termination ==
  <>[]( /\ \A c \in Calls : Terminated(c)
        /\ \A g \in DOMAIN activeRequests : activeRequests[g] = 0 )

\* Under {maxConcurrent: 1, cooldownMs: 0} every call has ended
\* successfully after some call waited on its polling timer while the clock
\* advanced.
C19_Witness ==
  /\ configs["openai"] = [maxConcurrent |-> 1, cooldownMs |-> 0]
  /\ ticks >= 1
  /\ \A c \in Calls :
       /\ Terminated(c)
       /\ \A k \in 1..Len(results[c]) : results[c][k].success
  /\ \A g \in DOMAIN activeRequests : activeRequests[g] = 0

\* Every result call c has recorded, reported through onProgress or handed
\* over in a response.
Placed(c) ==
  {results[c][k] : k \in 1..Len(results[c])}
  \cup {log[c][k].r : k \in {j \in 1..Len(log[c]) : log[c][j].kind = "progress"}}
  \cup UNION {{resp.results[k] : k \in 1..Len(resp.results)} :
               resp \in Responses(c)}

C22_ConfigLookupFailsFast ==
  \A c \in Calls :
    (pc[c] # "idle" /\ getModelById(req[c].modelId) # NoModel) =>
      LET looked == GroupConfigLookup(GroupOf(c)) IN
      looked.defined \/ looked.thrown

\* ------------------------------------------------------------------------
\* The per-group timestamp
\* ------------------------------------------------------------------------
\* The step is the admission commit of call c: executeRequest leaves
\* `await waitForServiceAvailability` and dispatches requestFn.
Commits(c) == pc[c] = "admitted" /\ pc'[c] # "admitted"

\* C23: activeRequests and lastRequestTime of every configured group start
\* at 0; lastRequestTime[g] is written only by the admission commit of a
\* call of g, which sets it to the current time, the start time of that
\* dispatch; it never decreases, and no running call of g has dispatched
\* an item later than lastRequestTime[g].
C23_LastRequestTime ==
  /\ \A g \in DOMAIN configs :
       activeRequests[g] = 0 /\ lastRequestTime[g] = 0
  /\ [](\A c \in Calls :
          dispatchedAt[c] # 0 =>
            dispatchedAt[c] <= lastRequestTime[GroupOf(c)])
  /\ [][/\ \A g \in DOMAIN configs :
            /\ lastRequestTime'[g] >= lastRequestTime[g]
            /\ lastRequestTime'[g] # lastRequestTime[g] =>
                  \E c \in Calls : Commits(c) /\ GroupOf(c) = g
        /\ \A c \in Calls :
             Commits(c) =>
               /\ lastRequestTime'[GroupOf(c)] = now
               /\ dispatchedAt'[c] = now]_vars

\* Two calls of one group were dispatched at different times and the
\* timestamp is that of the later one.
C23_Witness ==
  \E g \in DOMAIN configs : \E c1, c2 \in Calls :
    /\ GroupOf(c1) = g /\ GroupOf(c2) = g
    /\ 0 < dispatchedAt[c1]
    /\ dispatchedAt[c1] < dispatchedAt[c2]
    /\ lastRequestTime[g] = dispatchedAt[c2]

\* ------------------------------------------------------------------------
\* Re-hosting
\* ------------------------------------------------------------------------
\* C24: when the batch loop takes an adapter result, the storage service is
\* called exactly if the result has success = true and an image URL; any
\* other result goes on unchanged without a call to the storage service,
\* and is recorded with the fields the adapter returned.  The storage
\* service is called at no other step.
C24_RehostOnlyImages ==
  [][\A c \in Calls :
       /\ (pc[c] = "execRet" /\ pc'[c] # "execRet" /\ ~cur[c].thrown) =>
            IF cur[c].r.success /\ cur[c].r.imageUrl # "none"
              THEN /\ pc'[c] = "upload"
                   /\ invoked'[c].upload = invoked[c].upload + 1
              ELSE /\ pc'[c] = "uploadRet"
                   /\ invoked'[c].upload = invoked[c].upload
                   /\ cur'[c] = cur[c]
       /\ (pc[c] = "uploadRet" /\ pc'[c] # "uploadRet") =>
            /\ invoked'[c].upload = invoked[c].upload
            /\ Len(results'[c]) > Len(results[c])
            /\ results'[c][Len(results[c]) + 1] =
                 [cur[c].r EXCEPT !.item = idx[c]]
       /\ invoked'[c].upload # invoked[c].upload =>
            /\ pc[c] = "execRet" /\ ~cur[c].thrown
            /\ cur[c].r.success /\ cur[c].r.imageUrl # "none"]_vars

\* A call ended with a text-only success and an adapter failure, both
\* recorded as the adapter returned them, and never called the storage
\* service.
C24_Witness ==
  \E c \in Calls :
    /\ pc[c] = "done"
    /\ invoked[c].upload = 0
    /\ \E i, j \in 1..Len(results[c]) :
         /\ results[c][i] = [AdapterSettles("text").r EXCEPT !.item = i - 1]
         /\ results[c][j] = [AdapterSettles("fail").r EXCEPT !.item = j - 1]

\* C25: whatever the storage service returns or throws, the result leaves
\* uploadToStorageIfNeeded with the success flag, text and error of the
\* adapter's result; only imageUrl (the stored URL, when the upload
\* succeeded with a url) and the status message differ.
C25_RehostKeepsOutcome ==
  [][\A c \in Calls :
       (pc[c] = "upload" /\ pc'[c] # "upload") =>
         LET before == cur[c].r
             after == cur'[c].r
         IN
         /\ ~cur'[c].thrown
         /\ after.success = before.success
         /\ after.text = before.text
         /\ after.error = before.error
         /\ after.item = before.item
         /\ after.imageUrl \in {before.imageUrl, "stored"}
         /\ after.imageUrl = "stored" <=>
              after.message[Len(after.message)] = "saved"
         /\ Len(after.message) = Len(before.message) + 1
         /\ SubSeq(after.message, 1, Len(before.message)) = before.message
    ]_vars

\* One call holds a result whose upload raised an exception and one
\* whose upload succeeded: both are successes without an error, the first
\* with the provider's URL, the second with the stored one.
C25_Witness ==
  \E c \in Calls :
    \E i, j \in 1..Len(results[c]) :
      /\ results[c][i].message = << "uploadException" >>
      /\ results[c][j].message = << "saved" >>
      /\ results[c][i].success /\ results[c][i].imageUrl = "orig"
      /\ results[c][i].error = "none"
      /\ results[c][j].success /\ results[c][j].imageUrl = "stored"

\* The calls of group g other than c whose adapter invocation is in flight.
OthersInFlight(c, g) ==
  Cardinality({d \in Calls \ {c} : pc[d] = "adapter" /\ GroupOf(d) = g})

\* C26: the slot is released before re-hosting.  The step in which call
\* c's adapter invocation finishes decrements activeRequests of its group
\* and does not invoke the storage service; the later step that invokes it
\* leaves the counter alone; and while c re-hosts, the counter of its group
\* counts only the other calls' adapter invocations.
C26_ReleasedBeforeRehosting ==
  /\ [](\A c \in Calls :
          pc[c] \in {"upload", "uploadRet"} =>
            activeRequests[GroupOf(c)] = OthersInFlight(c, GroupOf(c)))
  /\ [][\A c \in Calls :
          /\ (pc[c] = "adapter" /\ pc'[c] # "adapter") =>
               /\ activeRequests'[GroupOf(c)] =
                    activeRequests[GroupOf(c)] - 1
               /\ invoked'[c].upload = invoked[c].upload
          /\ invoked'[c].upload # invoked[c].upload =>
               /\ pc[c] = "execRet"
               /\ activeRequests' = activeRequests]_vars

\* With maxConcurrent = 1, a call is re-hosting an item while the adapter
\* invocation of another call of the same group, dispatched later, is in
\* flight.
C26_Witness ==
  \E c, d \in Calls :
    /\ c # d
    /\ GroupOf(c) = GroupOf(d)
    /\ configs[GroupOf(c)].maxConcurrent = 1
    /\ pc[c] = "upload"
    /\ pc[d] = "adapter"
    /\ dispatchedAt[d] > dispatchedAt[c]
    /\ activeRequests[GroupOf(c)] = 1

\* ------------------------------------------------------------------------
\* Cooldown and group isolation
\* ------------------------------------------------------------------------
\* C27: within one call, consecutive items are dispatched at least
\* cooldownMs of the group apart, whatever the other calls do: when a call
\* that has dispatched an item before dispatches its next one, at least
\* cooldownMs have passed since its previous dispatch.
C27_CooldownWithinCall ==
  [][\A c \in Calls :
       (Commits(c) /\ dispatchedAt[c] # 0) =>
         /\ dispatchedAt'[c] = now
         /\ now - dispatchedAt[c] >= configs[GroupOf(c)].cooldownMs]_vars

\* Under a positive cooldown, a call has dispatched its second item, one
\* cooldown or more after the start, and another call of the same group
\* has dispatched an item as well.
C27_Witness ==
  \E c, d \in Calls :
    /\ c # d
    /\ GroupOf(c) = GroupOf(d)
    /\ configs[GroupOf(c)].cooldownMs > 0
    /\ idx[c] = 1 /\ pc[c] = "adapter"
    /\ dispatchedAt[c] >= StartTime + configs[GroupOf(c)].cooldownMs
    /\ dispatchedAt[d] > 0

\* The step runs the admission check of call c: executeRequest enters
\* waitForServiceAvailability after a granted checkAuth, or a polling timer
\* fires.
Checks(c) ==
  \/ pc[c] = "authRet" /\ cur[c].r.success /\ pc'[c] # "authRet"
  \/ pc[c] = "poll" /\ (pc'[c] # "poll" \/ wakeAt'[c] # wakeAt[c])

\* The step is one of call c.
Steps(c) ==
  \/ pc'[c] # pc[c]
  \/ wakeAt'[c] # wakeAt[c]
  \/ cur'[c] # cur[c]
  \/ idx'[c] # idx[c]

\* Group h, by its own ledger and configuration, admits no item now.
Busy(h) ==
  \/ activeRequests[h] >= configs[h].maxConcurrent
  \/ now - lastRequestTime[h] < configs[h].cooldownMs

\* C28: provider groups are isolated.  A step of a call of group g leaves
\* the counter and the timestamp of every other group unchanged, and an
\* admission check for g admits exactly when g's own counter is below g's
\* maxConcurrent and g's own cooldown has elapsed, whatever the state of
\* the other groups.
C28_GroupIsolation ==
  [][\A c \in Calls :
       /\ Steps(c) =>
            \A h \in DOMAIN configs \ {GroupOf(c)} :
              /\ activeRequests'[h] = activeRequests[h]
              /\ lastRequestTime'[h] = lastRequestTime[h]
       /\ Checks(c) => (pc'[c] = "admitted" <=> ~Busy(GroupOf(c)))]_vars

\* A call was admitted for its group at a moment when another group has a
\* request in flight and its cooldown running, so that nothing could be
\* admitted for that other group.
C28_Witness ==
  \E d \in Calls : \E h \in DOMAIN configs \ {GroupOf(d)} :
    /\ pc[d] = "admitted"
    /\ activeRequests[h] > 0
    /\ now - lastRequestTime[h] < configs[h].cooldownMs
    /\ Busy(h)

\* ------------------------------------------------------------------------
\* Credentials
\* ------------------------------------------------------------------------
\* C29: the credential check runs only after admission.  An item fails for
\* missing credentials only in the step that commits its admission: the
\* item was admitted by a check that found its group free, the step sets
\* lastRequestTime of the group to the current time, increments and
\* decrements activeRequests (which is left as it was) and reaches no
\* adapter; under a positive cooldown the group admits nothing right after
\* the step, and the call's next item is dispatched no sooner than
\* cooldownMs later.
C29_CredentialCheckAfterAdmission ==
  [][\A c \in Calls :
       LET g == GroupOf(c) IN
       /\ (cur'[c].error = "CREDENTIALS_MISSING" /\ cur'[c] # cur[c]) =>
            /\ Commits(c)
            /\ ~req[c].hasCredentials
       /\ (pc'[c] = "admitted" /\ pc[c] # "admitted") =>
            Checks(c) /\ ~Busy(g)
       /\ (pc[c] = "admitted" /\ pc'[c] # "admitted"
           /\ ~req[c].hasCredentials) =>
            /\ cur'[c] = Thrown("CREDENTIALS_MISSING")
            /\ lastRequestTime'[g] = now
            /\ activeRequests'[g] = activeRequests[g]
            /\ invoked'[c].adapter = invoked[c].adapter
            /\ configs[g].cooldownMs > 0 =>
                 now' - lastRequestTime'[g] < configs[g].cooldownMs
            /\ dispatchedAt[c] # 0 =>
                 now - dispatchedAt[c] >= configs[g].cooldownMs]_vars

\* A call without credentials has recorded the credential failure of its
\* first item, has reached no adapter, and its second item is waiting for
\* the cooldown that the first item started.
C29_Witness ==
  \E c \in Calls :
    /\ ~req[c].hasCredentials
    /\ idx[c] = 1 /\ pc[c] = "poll"
    /\ Len(results[c]) >= 1
    /\ results[c][1].error = "CREDENTIALS_MISSING"
    /\ invoked[c].adapter = 0
    /\ activeRequests[GroupOf(c)] = 0
    /\ lastRequestTime[GroupOf(c)] = dispatchedAt[c]
    /\ now - lastRequestTime[GroupOf(c)] < configs[GroupOf(c)].cooldownMs

\* ------------------------------------------------------------------------
\* Consumer exceptions
\* ------------------------------------------------------------------------
\* The progress callbacks of call c that threw while reporting a success.
ThrewOnSuccess(c) ==
  {k \in 1..Len(log[c]) :
     /\ log[c][k].kind = "progress"
     /\ log[c][k].threw
     /\ log[c][k].r.success}

\* C30: a consumer exception does not corrupt the stream.  If onProgress
\* throws for a successfully generated item i, then onProgress is invoked
\* once for index i, item i has one recorded result, which is the success,
\* and the call ends with onComplete carrying exactly N results.
C30_ConsumerExceptionHarmless ==
  \A c \in Calls :
    IsStream(c) =>
      \A k \in ThrewOnSuccess(c) :
        LET i == log[c][k].index
            reports == SelectSeq(log[c], LAMBDA e :
                         e.kind = "progress" /\ e.index = i)
            records == SelectSeq(results[c], LAMBDA r : r.item = i)
        IN
        /\ Len(reports) = 1
        /\ Len(records) = 1
        /\ records[1].success
        /\ \A e \in {log[c][n] : n \in 1..Len(log[c])} :
             e.kind = "complete" => Len(e.resp.results) = Count(c)
        /\ pc[c] = "done" => Events(c, {"complete"}) # << >>

\* ------------------------------------------------------------------------
\* Aggregate and streaming modes
\* ------------------------------------------------------------------------
\* One pass of the loop of generateMultipleImages over the answers f of the
\* collaborators: the result pushed for item i, and whether the catch block
\* built it.
AggregateItem(f, hasCredentials, i) ==
  IF f.auth = "denied"
    THEN [caught |-> TRUE, r |-> ErrorResult("AUTH_REQUIRED", i)]
  ELSE IF ~hasCredentials
    THEN [caught |-> TRUE, r |-> ErrorResult("CREDENTIALS_MISSING", i)]
  ELSE LET settled == AdapterSettles(f.adapter) IN
       IF settled.thrown
         THEN [caught |-> TRUE, r |-> ErrorResult(settled.error, i)]
       ELSE IF NeedsUpload(settled.r)
         THEN [caught |-> FALSE,
               r |-> [uploadToStorageIfNeeded(settled.r, f.upload)
                        EXCEPT !.item = i]]
       ELSE [caught |-> FALSE, r |-> [settled.r EXCEPT !.item = i]]

\* The response generateMultipleImages returns for a request of `count`
\* items when the collaborators answer as in fd.
AggregateOf(fd, count, hasCredentials) ==
  LET item(k) == AggregateItem(fd[k], hasCredentials, k - 1)
      n == IF Len(fd) < count THEN Len(fd) ELSE count
  IN GenerationResponse([k \in 1..n |-> item(k).r], count,
                        Cardinality({k \in 1..n : item(k).caught}))

\* The results handed to onProgress by call c, in order.
ProgressResults(c) ==
  LET progress == Events(c, {"progress"}) IN
  [k \in 1..Len(progress) |-> progress[k].r]

\* C31: aggregate and streaming modes are equivalent.  A generate call
\* returns the response computed from its request and the collaborators'
\* answers; a generateStream call with the same model and count that got
\* the same answers ends with one onComplete whose response is that same
\* response, and the results of that response are exactly the results
\* handed to onProgress, in order.
C31_ModesEquivalent ==
  \A c \in Calls :
    (PreflightOk(c) /\ pc[c] = "done") =>
      LET count == Or(req[c].count, DEFAULT_COUNT)
          expected == AggregateOf(fed[c], count, req[c].hasCredentials)
      IN
      /\ Len(fed[c]) = count
      /\ IsAggregate(c) => outcome[c] = Resolved(expected)
      /\ IsStream(c) =>
           /\ Len(Events(c, {"complete"})) = 1
           /\ Delivered(c) = expected
           /\ Delivered(c).results = ProgressResults(c)

\* C32: effective item count.  The number of items of a call is the count
\* of its {prompt, count} request, 1 when the count is omitted or 0: no
\* more items than that are begun, a call that returns or completes has
\* begun exactly that many and reports that number as totalRequested, and
\* every onProgress is handed that number as its total.
C32_EffectiveCount ==
  \A c \in Calls :
    PreflightOk(c) =>
      LET n == IF req[c].count = 0 THEN 1 ELSE req[c].count IN
      /\ Len(fed[c]) <= n
      /\ \A k \in 1..Len(log[c]) :
           log[c][k].kind = "progress" => log[c][k].total = n
      /\ (IsAggregate(c) /\ pc[c] = "done") =>
           /\ Len(fed[c]) = n
           /\ outcome[c].resp.totalRequested = n
      /\ (IsStream(c) /\ Events(c, {"complete"}) # << >>) =>
           /\ Len(fed[c]) = n
           /\ Delivered(c).totalRequested = n

\* ------------------------------------------------------------------------
\* Order of admission
\* ------------------------------------------------------------------------
\* C33: admission is not first-come first-served.  An item is admitted
\* only by a check of its own, and a check admits exactly when it finds
\* the counter of its group below maxConcurrent and the cooldown of its
\* group elapsed, also when another item of the group has been waiting for
\* longer.
C33_OwnPollDecides ==
  [][\A c \in Calls :
       /\ (pc'[c] = "admitted" /\ pc[c] # "admitted") => Checks(c)
       /\ Checks(c) => (pc'[c] = "admitted" <=> ~Busy(GroupOf(c)))
       /\ Checks(c) => (pc'[c] = "poll" <=> Busy(GroupOf(c)))]_vars

\* An item has been admitted while an item of another call of the same
\* group, which began to wait earlier, is still polling.
C33_Witness ==
  \E c, d \in Calls :
    /\ c # d
    /\ GroupOf(c) = GroupOf(d)
    /\ pc[c] = "admitted"
    /\ pc[d] = "poll"
    /\ 0 < waitingSince[d]
    /\ waitingSince[d] < waitingSince[c]

\* ------------------------------------------------------------------------
\* The chat message's staging
\* ------------------------------------------------------------------------
\* The stream of call c has delivered its terminal callback.
StreamTerminal(c) ==
  /\ log[c] # << >>
  /\ log[c][Len(log[c])].kind \in {"complete", "error"}

\* C34: the staging counters of the chat message: after every onProgress
\* and every onError of any selected model, success + failed + generating
\* equals total and generating is not negative; once the stream of every
\* selected model has delivered its terminal callback, generating is 0.
C34_StagingCounters ==
  /\ ui.status.success + ui.status.failed + ui.status.generating
       = ui.status.total
  /\ ui.status.generating >= 0
  /\ ui.status.total = TotalItems(req, NumCalls)
  /\ (\A c \in Calls : StreamTerminal(c)) => ui.status.generating = 0

\* Every stream is over: one model failed before its first item through
\* onError, another delivered a successful item through onProgress.
C34_Witness ==
  /\ ui.mounted
  /\ \A c \in Calls : StreamTerminal(c)
  /\ \E c \in Calls : log[c][1].kind = "error"
  /\ \E c \in Calls : log[c][1].kind = "progress" /\ log[c][1].r.success
  /\ ui.status.success > 0
  /\ ui.status.failed > 0

\* The onProgress callbacks that call c invoked in this step.
NewProgress(c) ==
  SelectSeq(SubSeq(log'[c], Len(log[c]) + 1, Len(log'[c])),
            LAMBDA e : e.kind = "progress")

\* C35: placeholder alignment of the chat message: an onProgress(result,
\* index, total) of a model changes only slot index of the placeholder
\* array rendered for that model (message.results.images[name]), keeps the
\* slot's id and turns its isGenerating from true to false; the slots of
\* other indices and of other models stay as they are, and a slot that is
\* no longer generating is not written by a later onProgress.
C35_PlaceholderAlignment ==
  [][\A c \in Calls :
       LET prog == NewProgress(c) IN
       /\ Len(prog) <= 1
       /\ Len(prog) = 1 =>
            LET i == prog[1].index + 1 IN
            /\ i \in 1..Len(ui.images[c])
            /\ ui.images[c][i].isGenerating
            /\ ~ui'.images[c][i].isGenerating
            /\ ui'.images[c][i].id = ui.images[c][i].id
            /\ \A k \in 1..Len(ui.images[c]) :
                 k # i => ui'.images[c][k] = ui.images[c][k]
            /\ \A d \in Calls : d # c => ui'.images[d] = ui.images[d]
    ]_vars

\* The stream of call c is under way: started and not yet terminal.
StreamUnderWay(c) == pc[c] \notin {"idle", "done"}

\* C36: completion of the chat message: handleSendMessage starts the
\* streams of all selected models before any of them proceeds (no stream
\* waits for another one's end), isGenerating is false only when the stream
\* of every selected model has delivered onComplete or onError, and once
\* every stream has done so, isGenerating eventually is false.
C36_Completion ==
  /\ [][\A c \in Calls :
          (pc[c] # "idle" /\ pc'[c] # pc[c])
            => \A d \in Calls : pc[d] # "idle"]_vars
  /\ [](~ui.isGenerating => \A c \in Calls : StreamTerminal(c))
  /\ [](ui.awaiting > NumCalls <=> ~ui.isGenerating)
  /\ ((\A c \in Calls : StreamTerminal(c)) ~> ~ui.isGenerating)

\* Two streams are under way at once while the message is generating, one
\* of them with an item already delivered.
C36_Witness ==
  /\ ui.mounted
  /\ ui.isGenerating
  /\ \E c, d \in Calls :
       /\ c # d
       /\ StreamUnderWay(c)
       /\ StreamUnderWay(d)
       /\ log[c] # << >>

\* ------------------------------------------------------------------------
\* The static registry
\* ------------------------------------------------------------------------
\* An admission configuration the dispatcher can work with.
WellFormedConfig(cf) ==
  /\ cf.maxConcurrent \in Nat
  /\ cf.maxConcurrent >= 1
  /\ cf.cooldownMs \in Nat
  /\ cf.cooldownMs >= 0

\* The catalog and the shipped "configs": ids are unique, and every model
\* has one group, which has a well-formed admission configuration.
CatalogWellFormed ==
  /\ \A m, n \in models : m.id = n.id => m = n
  /\ \A m \in models :
       /\ Cardinality({g \in Groups : m.group = g}) = 1
       /\ getModelById(m.id) = m
       /\ m.group \in DOMAIN ShippedConfigs
       /\ WellFormedConfig(ShippedConfigs[m.group])

\* C37: the static registry is well-formed and immutable: no two models of
\* the catalog share an id, every model belongs to exactly one provider
\* group, that group has an admission configuration with maxConcurrent >= 1
\* and cooldownMs >= 0 (in the shipped registry and in the one in use), and
\* no operation of the dispatcher changes a group's maxConcurrent or
\* cooldownMs.
C37_StaticRegistry ==
  /\ [](/\ CatalogWellFormed
        /\ \A g \in Groups :
             /\ HasGroupConfig(g)
             /\ WellFormedConfig(getModelConfigByGroup(g)))
  /\ [][\A g \in Groups :
          /\ g \in DOMAIN configs'
          /\ configs'[g].maxConcurrent = configs[g].maxConcurrent
          /\ configs'[g].cooldownMs = configs[g].cooldownMs]_vars

\* The dispatcher has admitted, run and released requests of two calls
\* under the shipped registry.
C37_Witness ==
  /\ configs = ShippedConfigs
  /\ \E c, d \in Calls :
       /\ c # d
       /\ pc[c] = "done"
       /\ pc[d] = "done"
       /\ invoked[c].adapter > 0
       /\ invoked[d].adapter > 0
  /\ \E g \in Groups : lastRequestTime[g] > 0
====
